---- MODULE Spec2Model ----
(***************************************************************************)
(* Model of the crate-wide failure taxonomy of the irc crate               *)
(* (src/src/error.rs): the Error, ConfigError and TomlError enums, their   *)
(* thiserror-derived Display and source() implementations, and the From    *)
(* conversions from lower-layer failures.                                  *)
(*                                                                         *)
(* Every value is a record with a "type" field.  Rust strings are          *)
(* sequences of one-character strings, so that formatting and extension    *)
(* extraction are computed and not assumed.  A failure object that is not  *)
(* a unit struct carries an "id" (the identity of the object) beside its   *)
(* message text, so that re-creating a failure from its text is            *)
(* distinguishable from moving it.                                         *)
(***************************************************************************)
EXTENDS Naturals, Sequences, FiniteSets

VARIABLES
    features,      \* cargo features of the build: subset of {"toml","json","yaml"}
    src,           \* the lower-layer failure handed to a From conversion
    out,           \* the top-level Error that was produced
    cur,           \* cause-chain traversal: the failure source() is called on next
    visited,       \* cause-chain traversal: the failures visited so far, in order
    rendered,      \* Display output of cur, as an Option
    path,          \* configuration loading: the document path, as an Option
    loadOut,       \* configuration loading: the result of the load
    parsed         \* configuration loading: the parsers that were run

vars == <<features, src, out, cur, visited, rendered, path, loadOut, parsed>>

convVars == <<src, out, cur, visited, rendered>>
loadVars == <<path, loadOut, parsed>>

\* Number of distinct failure objects of one external type.
MaxObj == 2
\* Longest generated diagnostic string.
MaxStrLen == 2
\* Longest generated configuration path.
MaxPathLen == 3

None == [type |-> "None"]

\* Option::Some
Some(x) == [type |-> "Some", val |-> x]

------------------------------------------------------------------------------
(* Strings *)

Msg_Io == <<"a", "n", " ", "i", "o", " ", "e", "r", "r", "o", "r", " ", "o", "c", "c", "u", "r", "r", "e", "d">>
Msg_Tls == <<"a", " ", "T", "L", "S", " ", "e", "r", "r", "o", "r", " ", "o", "c", "c", "u", "r", "r", "e", "d">>
Msg_SyncChannelClosed == <<"a", " ", "s", "y", "n", "c", " ", "c", "h", "a", "n", "n", "e", "l", " ", "c", "l", "o", "s", "e", "d">>
Msg_AsyncChannelClosed == <<"a", "n", " ", "a", "s", "y", "n", "c", " ", "c", "h", "a", "n", "n", "e", "l", " ", "c", "l", "o", "s", "e", "d">>
Msg_OneShotCanceled == <<"a", " ", "o", "n", "e", "s", "h", "o", "t", " ", "c", "h", "a", "n", "n", "e", "l", " ", "c", "l", "o", "s", "e", "d">>
Msg_InvalidConfig == <<"i", "n", "v", "a", "l", "i", "d", " ", "c", "o", "n", "f", "i", "g", ":", " ">>
Msg_InvalidMessage == <<"i", "n", "v", "a", "l", "i", "d", " ", "m", "e", "s", "s", "a", "g", "e", ":", " ">>
Msg_PoisonedLog == <<"m", "u", "t", "e", "x", " ", "f", "o", "r", " ", "a", " ", "l", "o", "g", "g", "e", "d", " ", "t", "r", "a", "n", "s", "p", "o", "r", "t", " ", "w", "a", "s", " ", "p", "o", "i", "s", "o", "n", "e", "d">>
Msg_PingTimeout == <<"c", "o", "n", "n", "e", "c", "t", "i", "o", "n", " ", "r", "e", "s", "e", "t", ":", " ", "n", "o", " ", "p", "i", "n", "g", " ", "r", "e", "s", "p", "o", "n", "s", "e">>
Msg_UnknownCodec == <<"u", "n", "k", "n", "o", "w", "n", " ", "c", "o", "d", "e", "c", ":", " ">>
Msg_CodecFailed_1 == <<"c", "o", "d", "e", "c", " ">>
Msg_CodecFailed_2 == <<" ", "f", "a", "i", "l", "e", "d", ":", " ">>
Msg_NoUsableNick == <<"n", "o", "n", "e", " ", "o", "f", " ", "t", "h", "e", " ", "s", "p", "e", "c", "i", "f", "i", "e", "d", " ", "n", "i", "c", "k", "n", "a", "m", "e", "s", " ", "w", "e", "r", "e", " ", "u", "s", "a", "b", "l", "e">>
Msg_StreamAlreadyConfigured == <<"s", "t", "r", "e", "a", "m", " ", "h", "a", "s", " ", "a", "l", "r", "e", "a", "d", "y", " ", "b", "e", "e", "n", " ", "c", "o", "n", "f", "i", "g", "u", "r", "e", "d">>
Msg_InvalidToml == <<"i", "n", "v", "a", "l", "i", "d", " ", "t", "o", "m", "l">>
Msg_InvalidJson == <<"i", "n", "v", "a", "l", "i", "d", " ", "j", "s", "o", "n">>
Msg_InvalidYaml == <<"i", "n", "v", "a", "l", "i", "d", " ", "y", "a", "m", "l">>
Msg_ConfigFormatDisabled == <<"c", "o", "n", "f", "i", "g", " ", "f", "o", "r", "m", "a", "t", " ", "d", "i", "s", "a", "b", "l", "e", "d", ":", " ">>
Msg_UnknownConfigFormat == <<"c", "o", "n", "f", "i", "g", " ", "f", "o", "r", "m", "a", "t", " ", "u", "n", "k", "n", "o", "w", "n", ":", " ">>
Msg_MissingExtension == <<"m", "i", "s", "s", "i", "n", "g", " ", "f", "o", "r", "m", "a", "t", " ", "e", "x", "t", "e", "n", "s", "i", "o", "n">>
Msg_NicknameNotSpecified == <<"n", "i", "c", "k", "n", "a", "m", "e", " ", "n", "o", "t", " ", "s", "p", "e", "c", "i", "f", "i", "e", "d">>
Msg_ServerNotSpecified == <<"s", "e", "r", "v", "e", "r", " ", "n", "o", "t", " ", "s", "p", "e", "c", "i", "f", "i", "e", "d">>
Msg_TomlRead == <<"d", "e", "s", "e", "r", "i", "a", "l", "i", "z", "a", "t", "i", "o", "n", " ", "f", "a", "i", "l", "e", "d">>
Msg_TomlWrite == <<"s", "e", "r", "i", "a", "l", "i", "z", "a", "t", "i", "o", "n", " ", "f", "a", "i", "l", "e", "d">>

S_ini == <<"i", "n", "i">>
S_bot == <<"b", "o", "t">>
S_bot_ini == <<"b", "o", "t", ".", "i", "n", "i">>
S_toml == <<"t", "o", "m", "l">>
S_json == <<"j", "s", "o", "n">>
S_yaml == <<"y", "a", "m", "l">>
S_yml == <<"y", "m", "l">>
S_bot_toml == <<"b", "o", "t", ".", "t", "o", "m", "l">>
S_bot_json == <<"b", "o", "t", ".", "j", "s", "o", "n">>
S_bot_yaml == <<"b", "o", "t", ".", "y", "a", "m", "l">>
S_bot_yml == <<"b", "o", "t", ".", "y", "m", "l">>
S_dir_bot == <<"c", "o", "n", "f", ".", "d", "/", "b", "o", "t">>
S_dir_bot_toml == <<"c", "o", "n", "f", ".", "d", "/", "b", "o", "t", ".", "t", "o", "m", "l">>
S_none == <<"<", "n", "o", "n", "e", ">">>
S_utf8 == <<"u", "t", "f", "8">>
S_TOML == <<"T", "O", "M", "L">>
S_JSON == <<"J", "S", "O", "N">>
S_YAML == <<"Y", "A", "M", "L">>

\* All strings over alphabet of length at most n.
StringsUpTo(alphabet, n) == UNION {[1..k -> alphabet] : k \in 0..n}

\* Values of the String fields (path, string, codec, data, format).
DiagStrings == StringsUpTo({"a", "."}, MaxStrLen) \cup {S_ini, S_bot_ini, S_utf8, S_none}

\* Message texts of the external failure objects.
LeafMsgs == {<<"e", "o", "f">>, <<>>}

\* Unsent payloads of a TrySendError<T>.
Payloads == {<<"P", "I", "N", "G">>, <<>>}

------------------------------------------------------------------------------
(* #[derive(Error)]: Display and source() *)

\* Display with the attribute of UnknownConfigFormat copied from ConfigFormatDisabled
\* and InvalidConfig interpolating nothing.
DisplayWrongAttr(v) ==
    CASE v.type = "ConfigError" /\ v.tag = "UnknownConfigFormat" -> Msg_ConfigFormatDisabled \o v.format
      [] v.type = "Error" /\ v.tag = "InvalidConfig" -> Msg_InvalidConfig
      [] v.type = "Error" /\ v.tag = "UnknownCodec" -> Msg_UnknownCodec \o v.codec
      [] OTHER -> <<>>

\* The #[error("...")] attribute of each variant, with its fields interpolated.
Display(v) ==
    CASE v.type = "Error" ->
          (CASE v.tag = "Io" -> Msg_Io
             [] v.tag = "Tls" -> Msg_Tls
             [] v.tag = "SyncChannelClosed" -> Msg_SyncChannelClosed
             [] v.tag = "AsyncChannelClosed" -> Msg_AsyncChannelClosed
             [] v.tag = "OneShotCanceled" -> Msg_OneShotCanceled
             [] v.tag = "InvalidConfig" -> Msg_InvalidConfig \o v.path
             [] v.tag = "InvalidMessage" -> Msg_InvalidMessage \o v.string
             [] v.tag = "PoisonedLog" -> Msg_PoisonedLog
             [] v.tag = "PingTimeout" -> Msg_PingTimeout
             [] v.tag = "UnknownCodec" -> Msg_UnknownCodec \o v.codec
             [] v.tag = "CodecFailed" -> Msg_CodecFailed_1 \o v.codec \o Msg_CodecFailed_2 \o v.data
             [] v.tag = "NoUsableNick" -> Msg_NoUsableNick
             [] v.tag = "StreamAlreadyConfigured" -> Msg_StreamAlreadyConfigured)
      [] v.type = "ConfigError" ->
          (CASE v.tag = "InvalidToml" -> Msg_InvalidToml
             [] v.tag = "InvalidJson" -> Msg_InvalidJson
             [] v.tag = "InvalidYaml" -> Msg_InvalidYaml
             [] v.tag = "ConfigFormatDisabled" -> Msg_ConfigFormatDisabled \o v.format
             [] v.tag = "UnknownConfigFormat" -> Msg_UnknownConfigFormat \o v.format
             [] v.tag = "MissingExtension" -> Msg_MissingExtension
             [] v.tag = "NicknameNotSpecified" -> Msg_NicknameNotSpecified
             [] v.tag = "ServerNotSpecified" -> Msg_ServerNotSpecified)
      [] v.type = "TomlError" ->
          (CASE v.tag = "Read" -> Msg_TomlRead
             [] v.tag = "Write" -> Msg_TomlWrite)

\* The types of this module, whose Display and source() are derived here.
TaxonomyTypes == {"Error", "ConfigError", "TomlError"}

RECURSIVE Source(_)

\* std::io::Error::source(): an io::Error built around a custom payload
\* (io::Error::new(kind, payload)) answers with the payload's own source(), not
\* with the payload; any other io::Error has none.
io_Error_source(e) == IF e.custom = None THEN None ELSE Source(e.custom)

\* MessageParseError::source(): the #[source] cause of InvalidModeString.
MessageParseError_source(e) == IF e.variant = "InvalidModeString" THEN e.cause ELSE None

\* native_tls::Error::source(): the ErrorStack of a failed handshake or the
\* failure of the underlying stream, whichever the TLS failure holds; None when
\* it holds neither.
native_tls_Error_source(e) == e.inner

\* serde_json::Error::source(): for a failure of the reader, that io::Error's own
\* source(), not the io::Error; None for a syntax or data failure.
serde_json_Error_source(e) == IF e.inner = None THEN None ELSE Source(e.inner)

\* serde_yaml::Error::source(): for a failure built around another one, that
\* failure or, in the releases that forward, that failure's own source().
serde_yaml_Error_source(e) ==
    IF e.inner = None THEN None
    ELSE IF e.forwards THEN Source(e.inner)
    ELSE e.inner

\* source() with the #[source] attribute missing on ConfigError::InvalidToml.
SourceMissingAttr(v) ==
    CASE v.type = "Error" /\ v.tag \in {"Io", "Tls", "SyncChannelClosed",
                                         "AsyncChannelClosed", "OneShotCanceled"} -> v.f0
      [] v.type = "Error" /\ v.tag \in {"InvalidConfig", "InvalidMessage"} -> v.cause
      [] v.type = "ConfigError" /\ v.tag \in {"InvalidJson", "InvalidYaml"} -> v.f0
      [] v.type = "TomlError" -> v.f0
      [] v.type = "IoError" -> io_Error_source(v)
      [] v.type = "MessageParseError" -> MessageParseError_source(v)
      [] v.type = "native_tls::Error" -> native_tls_Error_source(v)
      [] v.type = "serde_json::Error" -> serde_json_Error_source(v)
      [] v.type = "serde_yaml::Error" -> serde_yaml_Error_source(v)
      [] OTHER -> None

\* std::error::Error::source(): for the types of this module the field marked
\* #[source], None without one; for a failure object of another crate that
\* object's own source(); the toml, channel, one-shot and ErrorStack failures
\* have none.
Source(v) ==
    CASE v.type = "Error" /\ v.tag \in {"Io", "Tls", "SyncChannelClosed",
                                         "AsyncChannelClosed", "OneShotCanceled"} -> v.f0
      [] v.type = "Error" /\ v.tag \in {"InvalidConfig", "InvalidMessage"} -> v.cause
      [] v.type = "ConfigError" /\ v.tag \in {"InvalidToml", "InvalidJson", "InvalidYaml"} -> v.f0
      [] v.type = "TomlError" /\ v.tag \in {"Read", "Write"} -> v.f0
      [] v.type = "IoError" -> io_Error_source(v)
      [] v.type = "MessageParseError" -> MessageParseError_source(v)
      [] v.type = "native_tls::Error" -> native_tls_Error_source(v)
      [] v.type = "serde_json::Error" -> serde_json_Error_source(v)
      [] v.type = "serde_yaml::Error" -> serde_yaml_Error_source(v)
      [] OTHER -> None

------------------------------------------------------------------------------
(* Lower-layer failure types (imported at the top of error.rs) *)


\* std::sync::mpsc::RecvError, a unit struct
RecvErrors == {[type |-> "RecvError"]}

\* futures_channel::mpsc::SendError: the channel is full or disconnected
SendErrors == {[type |-> "SendError", kind |-> k] : k \in {"Full", "Disconnected"}}

\* futures_channel::mpsc::TrySendError<T>: a SendError and the unsent value
TrySendErrors == {[type |-> "TrySendError", err |-> e, val |-> v] : e \in SendErrors, v \in Payloads}

\* futures_channel::oneshot::Canceled, a unit struct
Canceleds == {[type |-> "Canceled"]}

\* crate::proto::error::ModeParseError
ModeParseErrors == {[type |-> "ModeParseError", id |-> i] : i \in 1..MaxObj}

\* crate::proto::error::MessageParseError; InvalidModeString wraps a cause
MessageParseErrors ==
    {[type |-> "MessageParseError", id |-> i, variant |-> v] :
        i \in 1..MaxObj, v \in {"EmptyMessage", "InvalidCommand"}}
    \cup {[type |-> "MessageParseError", id |-> c.id, variant |-> "InvalidModeString",
           string |-> <<"+", "x">>, cause |-> c] : c \in ModeParseErrors}

\* The failures an io::Error is built around with io::Error::new(kind, payload):
\* one that has a cause of its own and one that has none.
IoPayloads ==
    {[type |-> "Error", tag |-> "InvalidMessage", string |-> <<>>,
      cause |-> [type |-> "MessageParseError", id |-> 1, variant |-> "EmptyMessage"]],
     [type |-> "Error", tag |-> "PingTimeout"]}

\* std::io::Error: a plain one with its message text, or one built around a
\* payload, whose text is the payload's Display
IoErrors ==
    {[type |-> "IoError", id |-> i, msg |-> m, custom |-> None] :
        i \in 1..MaxObj, m \in LeafMsgs}
    \cup {[type |-> "IoError", id |-> i, msg |-> Display(c), custom |-> c] :
            i \in 1..MaxObj, c \in IoPayloads}

\* crate::proto::error::ProtocolError, the two cases matched by From<ProtocolError>
ProtocolErrors ==
    {[type |-> "ProtocolError", tag |-> "Io", e |-> e] : e \in IoErrors}
    \cup {[type |-> "ProtocolError", tag |-> "InvalidMessage", string |-> s, cause |-> c] :
            s \in DiagStrings, c \in MessageParseErrors}

\* The stream failures a TLS or parser failure can be built around: a plain
\* io::Error and the ones built around a payload.
InnerIoErrors == {e \in IoErrors : e.id = 1 /\ (e.custom # None \/ e.msg # <<>>)}

\* openssl::error::ErrorStack: the library's own account of a failed handshake
ErrorStacks == {[type |-> "openssl::error::ErrorStack", id |-> 1, msg |-> <<"s", "s", "l">>]}

\* native_tls::Error: one whose source() is the ErrorStack of a handshake that
\* met bytes that are not TLS, one whose source() is the failure of the
\* underlying stream, and one without a source
TlsErrors ==
    {[type |-> "native_tls::Error", id |-> i, msg |-> m, inner |-> None] :
        i \in 1..MaxObj, m \in LeafMsgs}
    \cup {[type |-> "native_tls::Error", id |-> i, msg |-> x.msg, inner |-> x] :
            i \in 1..MaxObj, x \in InnerIoErrors \cup ErrorStacks}

\* toml::de::Error and toml::ser::Error
ParserErrors(t) == {[type |-> t, id |-> i, msg |-> m] : i \in 1..MaxObj, m \in LeafMsgs}

\* serde_json::Error: a syntax or data failure, or one built around the failure
\* of the reader
JsonErrors ==
    {[type |-> "serde_json::Error", id |-> i, msg |-> m, inner |-> None] :
        i \in 1..MaxObj, m \in LeafMsgs}
    \cup {[type |-> "serde_json::Error", id |-> i, msg |-> x.msg, inner |-> x] :
            i \in 1..MaxObj, x \in InnerIoErrors}

\* serde_yaml::Error: a failure of its own, or one built around another failure,
\* which its source() hands out or forwards to
YamlErrors ==
    {[type |-> "serde_yaml::Error", id |-> i, msg |-> m, inner |-> None, forwards |-> FALSE] :
        i \in 1..MaxObj, m \in LeafMsgs}
    \cup {[type |-> "serde_yaml::Error", id |-> i, msg |-> x.msg, inner |-> x, forwards |-> b] :
            i \in 1..MaxObj, x \in InnerIoErrors, b \in BOOLEAN}

------------------------------------------------------------------------------
(* The taxonomy *)

Formats == {"toml", "json", "yaml"}

\* pub enum TomlError
TomlErrors ==
    {[type |-> "TomlError", tag |-> "Read", f0 |-> e] : e \in ParserErrors("toml::de::Error")}
    \cup {[type |-> "TomlError", tag |-> "Write", f0 |-> e] : e \in ParserErrors("toml::ser::Error")}

\* A cfg-gated variant of ConfigError with the feature that gates it the wrong one.
HasVariantWrongGate(feats, tag) ==
    CASE tag = "InvalidToml" -> "json" \in feats
      [] tag = "InvalidJson" -> "json" \in feats
      [] tag = "InvalidYaml" -> "yaml" \in feats
      [] OTHER -> TRUE

\* Whether variant tag of ConfigError exists in a build with features feats.
HasVariant(feats, tag) ==
    CASE tag = "InvalidToml" -> "toml" \in feats
      [] tag = "InvalidJson" -> "json" \in feats
      [] tag = "InvalidYaml" -> "yaml" \in feats
      [] OTHER -> TRUE

\* pub enum ConfigError, as compiled with features feats
ConfigErrors(feats) ==
    {c \in
        {[type |-> "ConfigError", tag |-> "InvalidToml", f0 |-> e] : e \in TomlErrors}
        \cup {[type |-> "ConfigError", tag |-> "InvalidJson", f0 |-> e] : e \in JsonErrors}
        \cup {[type |-> "ConfigError", tag |-> "InvalidYaml", f0 |-> e] : e \in YamlErrors}
        \cup {[type |-> "ConfigError", tag |-> "ConfigFormatDisabled", format |-> f] : f \in {S_TOML, S_JSON, S_YAML}}
        \cup {[type |-> "ConfigError", tag |-> "UnknownConfigFormat", format |-> f] : f \in DiagStrings}
        \cup {[type |-> "ConfigError", tag |-> t] :
                t \in {"MissingExtension", "NicknameNotSpecified", "ServerNotSpecified"}} :
     HasVariant(feats, c.tag)}

\* pub enum Error: the variants that no From conversion produces for free
ConstructedErrors(feats) ==
    {[type |-> "Error", tag |-> "InvalidConfig", path |-> p, cause |-> c] :
        p \in DiagStrings, c \in ConfigErrors(feats)}
    \cup {[type |-> "Error", tag |-> "InvalidMessage", string |-> s, cause |-> c] :
            s \in DiagStrings, c \in MessageParseErrors}
    \cup {[type |-> "Error", tag |-> t] :
            t \in {"PoisonedLog", "PingTimeout", "NoUsableNick", "StreamAlreadyConfigured"}}
    \cup {[type |-> "Error", tag |-> "UnknownCodec", codec |-> c] : c \in DiagStrings}
    \cup {[type |-> "Error", tag |-> "CodecFailed", codec |-> S_utf8, data |-> d] : d \in DiagStrings}

------------------------------------------------------------------------------
(* impl From<...> for Error *)

\* The conversion re-creating the failures from their text instead of moving them.
From_ProtocolError_Recreate(e) ==
    IF e.tag = "Io"
    THEN [type |-> "Error", tag |-> "Io",
          f0 |-> [type |-> "IoError", id |-> 1, msg |-> e.e.msg, custom |-> None]]
    ELSE [type |-> "Error", tag |-> "InvalidMessage",
          string |-> IF Len(e.string) > 1 THEN SubSeq(e.string, 1, 1) ELSE e.string,
          cause |-> [type |-> "MessageParseError", id |-> e.cause.id, variant |-> "EmptyMessage"]]

From_ProtocolError(e) ==
    IF e.tag = "Io"
    THEN [type |-> "Error", tag |-> "Io", f0 |-> e.e]
    ELSE [type |-> "Error", tag |-> "InvalidMessage", string |-> e.string, cause |-> e.cause]

From_IoError(e) == [type |-> "Error", tag |-> "Io", f0 |-> e]

\* A TLS failure wrapped under the Io discriminant.
From_native_tls_Error_AsIo(e) == [type |-> "Error", tag |-> "Io", f0 |-> e]

From_native_tls_Error(e) == [type |-> "Error", tag |-> "Tls", f0 |-> e]

From_RecvError(e) == [type |-> "Error", tag |-> "SyncChannelClosed", f0 |-> e]

\* The conversion choosing the discriminant from the contents of the failure.
From_SendError_ByKind(e) ==
    IF e.kind = "Full"
    THEN [type |-> "Error", tag |-> "SyncChannelClosed", f0 |-> e]
    ELSE [type |-> "Error", tag |-> "AsyncChannelClosed", f0 |-> e]

From_SendError(e) == [type |-> "Error", tag |-> "AsyncChannelClosed", f0 |-> e]

\* futures_channel: TrySendError::into_send_error drops the value, returns the SendError
into_send_error(e) == e.err

\* The conversion keeping the payload's influence: a failure with an empty
\* payload is reported as a fresh disconnection.
From_TrySendError_ByPayload(e) ==
    IF e.val = <<>>
    THEN [type |-> "Error", tag |-> "AsyncChannelClosed",
          f0 |-> [type |-> "SendError", kind |-> "Disconnected"]]
    ELSE [type |-> "Error", tag |-> "AsyncChannelClosed", f0 |-> into_send_error(e)]

From_TrySendError(e) == [type |-> "Error", tag |-> "AsyncChannelClosed", f0 |-> into_send_error(e)]

From_Canceled(e) == [type |-> "Error", tag |-> "OneShotCanceled", f0 |-> e]

\* The failures some From impl accepts.
Sources == ProtocolErrors \cup IoErrors \cup TlsErrors \cup RecvErrors \cup SendErrors
           \cup TrySendErrors \cup Canceleds

\* e.into(): the From impl selected by the type of e.
Into(e) ==
    CASE e.type = "ProtocolError" -> From_ProtocolError(e)
      [] e.type = "IoError" -> From_IoError(e)
      [] e.type = "native_tls::Error" -> From_native_tls_Error(e)
      [] e.type = "RecvError" -> From_RecvError(e)
      [] e.type = "SendError" -> From_SendError(e)
      [] e.type = "TrySendError" -> From_TrySendError(e)
      [] e.type = "Canceled" -> From_Canceled(e)

------------------------------------------------------------------------------
(* Conversions, construction, display and cause traversal as a state machine *)

ConvInit ==
    /\ src = None
    /\ out = None
    /\ cur = None
    /\ visited = <<>>
    /\ rendered = None

LoadIdle ==
    /\ path = None
    /\ loadOut = None
    /\ parsed = {}

Init ==
    /\ features \in SUBSET Formats
    /\ ConvInit
    /\ LoadIdle

\* A fallible operation detected failure e; the ? operator (or .into()) turns it
\* into the Error returned to the caller, who starts the traversal at it.
ConvertProtocolError ==
    /\ out = None
    /\ \E e \in ProtocolErrors :
        /\ src' = e
        /\ out' = From_ProtocolError(e)
        /\ cur' = From_ProtocolError(e)
    /\ visited' = <<>>
    /\ rendered' = None
    /\ UNCHANGED <<features, loadVars>>

ConvertIoError ==
    /\ out = None
    /\ \E e \in IoErrors :
        /\ src' = e
        /\ out' = From_IoError(e)
        /\ cur' = From_IoError(e)
    /\ visited' = <<>>
    /\ rendered' = None
    /\ UNCHANGED <<features, loadVars>>

ConvertTlsError ==
    /\ out = None
    /\ \E e \in TlsErrors :
        /\ src' = e
        /\ out' = From_native_tls_Error(e)
        /\ cur' = From_native_tls_Error(e)
    /\ visited' = <<>>
    /\ rendered' = None
    /\ UNCHANGED <<features, loadVars>>

ConvertRecvError ==
    /\ out = None
    /\ \E e \in RecvErrors :
        /\ src' = e
        /\ out' = From_RecvError(e)
        /\ cur' = From_RecvError(e)
    /\ visited' = <<>>
    /\ rendered' = None
    /\ UNCHANGED <<features, loadVars>>

ConvertSendError ==
    /\ out = None
    /\ \E e \in SendErrors :
        /\ src' = e
        /\ out' = From_SendError(e)
        /\ cur' = From_SendError(e)
    /\ visited' = <<>>
    /\ rendered' = None
    /\ UNCHANGED <<features, loadVars>>

ConvertTrySendError ==
    /\ out = None
    /\ \E e \in TrySendErrors :
        /\ src' = e
        /\ out' = From_TrySendError(e)
        /\ cur' = From_TrySendError(e)
    /\ visited' = <<>>
    /\ rendered' = None
    /\ UNCHANGED <<features, loadVars>>

ConvertCanceled ==
    /\ out = None
    /\ \E e \in Canceleds :
        /\ src' = e
        /\ out' = From_Canceled(e)
        /\ cur' = From_Canceled(e)
    /\ visited' = <<>>
    /\ rendered' = None
    /\ UNCHANGED <<features, loadVars>>

\* A variant built directly by the operation that failed.
Construct ==
    /\ out = None
    /\ \E e \in ConstructedErrors(features) :
        /\ src' = None
        /\ out' = e
        /\ cur' = e
    /\ visited' = <<>>
    /\ rendered' = None
    /\ UNCHANGED <<features, loadVars>>

\* The consumer formats the failure it is looking at.
Render ==
    /\ cur # None
    /\ cur.type \in TaxonomyTypes
    /\ rendered = None
    /\ rendered' = Some(Display(cur))
    /\ UNCHANGED <<features, src, out, cur, visited, loadVars>>

\* The consumer follows source() one level down.
Walk ==
    /\ cur # None
    /\ visited' = Append(visited, cur)
    /\ cur' = Source(cur)
    /\ rendered' = None
    /\ UNCHANGED <<features, src, out, loadVars>>

\* The caller matches on the failure, which ends its life.
Consume ==
    /\ out # None
    /\ src' = None
    /\ out' = None
    /\ cur' = None
    /\ visited' = <<>>
    /\ rendered' = None
    /\ UNCHANGED <<features, loadVars>>

Next ==
    \/ ConvertProtocolError
    \/ ConvertIoError
    \/ ConvertTlsError
    \/ ConvertRecvError
    \/ ConvertSendError
    \/ ConvertTrySendError
    \/ ConvertCanceled
    \/ Construct
    \/ Render
    \/ Walk
    \/ Consume

Spec == Init /\ [][Next]_vars

------------------------------------------------------------------------------
(* Configuration loading: format identification, then the parser of the format *)

\* Paths handed to the loader.
ConfigPaths ==
    StringsUpTo({"b", "."}, MaxPathLen)
    \cup {S_bot, S_bot_ini, S_bot_toml, S_bot_json, S_bot_yaml, S_bot_yml,
          S_dir_bot, S_dir_bot_toml}

\* Largest index of character c in s, 0 when c does not occur.
LastIndexOf(s, c) ==
    LET hits == {i \in 1..Len(s) : s[i] = c}
    IN IF hits = {} THEN 0 ELSE CHOOSE i \in hits : \A j \in hits : j <= i

\* The last component of a path.
FileName(p) == SubSeq(p, LastIndexOf(p, "/") + 1, Len(p))

\* The format marker of a path: what follows the last "." of the file name;
\* None when the file name has no "." or only a leading one.
Extension(p) ==
    LET f == FileName(p)
        d == LastIndexOf(f, ".")
    IN IF f = <<".", ".">> \/ d <= 1
       THEN None
       ELSE Some(SubSeq(f, d + 1, Len(f)))

\* The format a marker names, "" when it names none.
FormatOf(ext) ==
    CASE ext = S_toml -> "toml"
      [] ext = S_json -> "json"
      [] ext = S_yaml \/ ext = S_yml -> "yaml"
      [] OTHER -> ""

\* The &'static str naming a format in ConfigFormatDisabled.
FormatName(f) ==
    CASE f = "toml" -> S_TOML
      [] f = "json" -> S_JSON
      [] f = "yaml" -> S_YAML

\* The failures the parser of format f can end with, wrapped per format.
ParseFailures(f) ==
    CASE f = "toml" ->
           {[type |-> "ConfigError", tag |-> "InvalidToml",
             f0 |-> [type |-> "TomlError", tag |-> "Read", f0 |-> e]] :
                e \in ParserErrors("toml::de::Error")}
      [] f = "json" ->
           {[type |-> "ConfigError", tag |-> "InvalidJson", f0 |-> e] :
                e \in JsonErrors}
      [] f = "yaml" ->
           {[type |-> "ConfigError", tag |-> "InvalidYaml", f0 |-> e] :
                e \in YamlErrors}

Loaded == [type |-> "Ok"]

\* What the parser of a compiled-in format can return for some document.
ParseOutcomes(f) == {Loaded} \cup ParseFailures(f)

\* A loader that reports a missing extension as an unknown, empty format.
load_conflating(feats, p, outcome) ==
    LET ext == Extension(p)
        marker == IF ext = None THEN <<>> ELSE ext.val
        f == FormatOf(marker)
        fail(c) == [type |-> "Error", tag |-> "InvalidConfig", path |-> p, cause |-> c]
    IN IF f = ""
       THEN [res |-> fail([type |-> "ConfigError", tag |-> "UnknownConfigFormat",
                           format |-> marker]),
             ran |-> {}]
       ELSE IF f \notin feats
       THEN [res |-> fail([type |-> "ConfigError", tag |-> "ConfigFormatDisabled",
                           format |-> FormatName(f)]),
             ran |-> {}]
       ELSE [res |-> IF outcome = Loaded THEN Loaded ELSE fail(outcome), ran |-> {f}]

\* Loading the document at path p in a build with features feats; outcome is what
\* the parser returns if it is run.  res is the result, ran the parsers that ran.
load(feats, p, outcome) ==
    LET ext == Extension(p)
        f == IF ext = None THEN "" ELSE FormatOf(ext.val)
        fail(c) == [type |-> "Error", tag |-> "InvalidConfig", path |-> p, cause |-> c]
    IN IF ext = None
       THEN [res |-> fail([type |-> "ConfigError", tag |-> "MissingExtension"]), ran |-> {}]
       ELSE IF f = ""
       THEN [res |-> fail([type |-> "ConfigError", tag |-> "UnknownConfigFormat",
                           format |-> ext.val]),
             ran |-> {}]
       ELSE IF f \notin feats
       THEN [res |-> fail([type |-> "ConfigError", tag |-> "ConfigFormatDisabled",
                           format |-> FormatName(f)]),
             ran |-> {}]
       ELSE [res |-> IF outcome = Loaded THEN Loaded ELSE fail(outcome), ran |-> {f}]

\* The parse outcomes that can be given for path p.
OutcomesFor(feats, p) ==
    LET ext == Extension(p)
        f == IF ext = None THEN "" ELSE FormatOf(ext.val)
    IN IF f \in feats THEN ParseOutcomes(f) ELSE {Loaded}

Load ==
    /\ path = None
    /\ \E p \in ConfigPaths :
         \E outcome \in OutcomesFor(features, p) :
            LET r == load(features, p, outcome)
            IN /\ path' = Some(p)
               /\ loadOut' = r.res
               /\ parsed' = r.ran
    /\ UNCHANGED <<features, convVars>>

\* The caller handles the result.
LoadDone ==
    /\ path # None
    /\ path' = None
    /\ loadOut' = None
    /\ parsed' = {}
    /\ UNCHANGED <<features, convVars>>

LoadNext ==
    \/ Load
    \/ LoadDone

LoadSpec == Init /\ [][LoadNext]_vars

------------------------------------------------------------------------------
(* Properties of the conversions *)

\* C1: a protocol-layer failure tagged Io converts to Error::Io whose cause is
\* the very I/O failure object it carried (same identity and same contents),
\* and to no other variant.
C1_ProtocolIoPassthrough ==
    (src.type = "ProtocolError" /\ src.tag = "Io") =>
        /\ out.type = "Error"
        /\ out.tag = "Io"
        /\ DOMAIN out = {"type", "tag", "f0"}
        /\ out.f0 = src.e
        /\ out.f0.id = src.e.id
        /\ out.f0.msg = src.e.msg

C1_Witness ==
    /\ src.type = "ProtocolError"
    /\ src.tag = "Io"
    /\ src.e.id = MaxObj
    /\ out.tag = "Io"
    /\ out.f0.id = MaxObj

\* C2: a protocol-layer failure tagged InvalidMessage converts to
\* Error::InvalidMessage with the same raw string (same length, same characters)
\* and the same cause.
C2_ProtocolInvalidMessagePreserved ==
    (src.type = "ProtocolError" /\ src.tag = "InvalidMessage") =>
        /\ out.type = "Error"
        /\ out.tag = "InvalidMessage"
        /\ DOMAIN out = {"type", "tag", "string", "cause"}
        /\ Len(out.string) = Len(src.string)
        /\ \A i \in 1..Len(src.string) : out.string[i] = src.string[i]
        /\ out.cause = src.cause

C2_Witness ==
    /\ src.type = "ProtocolError"
    /\ src.tag = "InvalidMessage"
    /\ src.string = S_bot_ini
    /\ src.cause.variant = "InvalidCommand"
    /\ out.tag = "InvalidMessage"
    /\ out.string = S_bot_ini

\* C3: a try-send failure converts to Error::AsyncChannelClosed whose cause is the
\* SendError inside the try-send failure; the unsent payload is not part of the
\* result and any other payload gives the same result.
C3_TrySendDiscardsPayload ==
    (src.type = "TrySendError") =>
        /\ out.type = "Error"
        /\ out.tag = "AsyncChannelClosed"
        /\ DOMAIN out = {"type", "tag", "f0"}
        /\ out.f0 = src.err
        /\ out.f0.type = "SendError"
        /\ DOMAIN out.f0 = {"type", "kind"}
        /\ \A e \in TrySendErrors : e.err = src.err => From_TrySendError(e) = out

C3_Witness ==
    /\ src.type = "TrySendError"
    /\ src.val # <<>>
    /\ src.err.kind = "Disconnected"
    /\ out.tag = "AsyncChannelClosed"

\* The variant each direct-wrap conversion targets.
C4_Target ==
    [t \in {"IoError", "native_tls::Error", "RecvError", "SendError", "Canceled"} |->
        CASE t = "IoError" -> "Io"
          [] t = "native_tls::Error" -> "Tls"
          [] t = "RecvError" -> "SyncChannelClosed"
          [] t = "SendError" -> "AsyncChannelClosed"
          [] t = "Canceled" -> "OneShotCanceled"]

\* C4: each direct-wrap conversion yields its own variant, whose only field is
\* the failure that was given, unchanged.
C4_DirectWrap ==
    (src.type \in DOMAIN C4_Target) =>
        /\ out.type = "Error"
        /\ out.tag = C4_Target[src.type]
        /\ DOMAIN out = {"type", "tag", "f0"}
        /\ out.f0 = src

C4_Witness ==
    /\ src.type = "native_tls::Error"
    /\ src.id = MaxObj
    /\ out.tag = "Tls"
    /\ out.f0 = src

\* The value a failure wraps, read off its fields.
C5_Wrapped(v) ==
    IF "cause" \in DOMAIN v THEN v.cause
    ELSE IF "f0" \in DOMAIN v THEN v.f0
    ELSE IF "custom" \in DOMAIN v THEN v.custom
    ELSE IF "inner" \in DOMAIN v THEN v.inner
    ELSE None

\* C5 as stated: following source() from a top-level Error visits the Error, then
\* each wrapped failure in nesting order, skipping none, and ends only at a
\* failure that wraps nothing.
C5_AsStated ==
    /\ Len(visited) >= 1 => visited[1] = out
    /\ \A i \in 1..(Len(visited) - 1) : visited[i + 1] = C5_Wrapped(visited[i])
    /\ (Len(visited) >= 1 /\ cur # None) => cur = C5_Wrapped(visited[Len(visited)])
    /\ (Len(visited) >= 1 /\ cur = None) => C5_Wrapped(visited[Len(visited)]) = None

RECURSIVE C5_Nested(_)

\* Every failure nested inside v, at any depth.
C5_Nested(v) ==
    LET w == C5_Wrapped(v)
    IN IF w = None THEN {} ELSE {w} \cup C5_Nested(w)

\* b follows a in the traversal: exactly what a wraps when a is an Error, a
\* ConfigError or a TomlError; below, a failure nested inside a or the end of
\* the chain.
C5_Follows(a, b) ==
    IF a.type \in TaxonomyTypes
    THEN b = C5_Wrapped(a)
    ELSE b = None \/ b \in C5_Nested(a)

\* C5 amended: every Error, ConfigError and TomlError that wraps a cause exposes
\* exactly that cause, so following source() from a top-level Error visits each
\* level of the taxonomy in nesting order and does not stop while one is left;
\* below it the traversal follows the wrapped object's own source(), which
\* visits only failures nested inside that object and may skip some of them or
\* stop before the innermost.
C5_CauseChainExposed ==
    /\ Len(visited) >= 1 => visited[1] = out
    /\ \A i \in 1..(Len(visited) - 1) : C5_Follows(visited[i], visited[i + 1])
    /\ Len(visited) >= 1 => C5_Follows(visited[Len(visited)], cur)

C5_Witness ==
    /\ cur = None
    /\ Len(visited) = 4
    /\ visited[1].tag = "InvalidConfig"
    /\ visited[2].tag = "InvalidToml"
    /\ visited[3].tag = "Read"
    /\ visited[4].type = "toml::de::Error"

S_unknown_ini == <<"c", "o", "n", "f", "i", "g", " ", "f", "o", "r", "m", "a", "t", " ", "u", "n", "k", "n", "o", "w", "n", ":", " ", "i", "n", "i">>

\* C6: UnknownConfigFormat renders as "config format unknown: " then the format,
\* InvalidConfig as "invalid config: " then the path, UnknownCodec as
\* "unknown codec: " then the codec; the cause of InvalidConfig has no part in it.
C6_RenderedMessages ==
    (rendered # None) =>
        /\ (cur.type = "ConfigError" /\ cur.tag = "UnknownConfigFormat") =>
              /\ rendered.val = Msg_UnknownConfigFormat \o cur.format
              /\ cur.format = S_ini => rendered.val = S_unknown_ini
        /\ (cur.type = "Error" /\ cur.tag = "InvalidConfig") =>
              /\ rendered.val = Msg_InvalidConfig \o cur.path
              /\ \A c \in ConfigErrors(features) : Display([cur EXCEPT !.cause = c]) = rendered.val
        /\ (cur.type = "Error" /\ cur.tag = "UnknownCodec") =>
              rendered.val = Msg_UnknownCodec \o cur.codec
        /\ (cur.type = "Error" /\ "f0" \in DOMAIN cur) =>
              Display([cur EXCEPT !.f0 = None]) = rendered.val

C6_Witness ==
    /\ cur.type = "ConfigError"
    /\ cur.tag = "UnknownConfigFormat"
    /\ cur.format = S_ini
    /\ rendered = Some(S_unknown_ini)

\* The type of a failure and, for a protocol-layer failure, its tag.
C10_Kind(e) == IF e.type = "ProtocolError" THEN <<e.type, e.tag>> ELSE <<e.type>>

\* C10: the variant a conversion yields is one of Io, Tls, SyncChannelClosed,
\* AsyncChannelClosed, OneShotCanceled, InvalidMessage and is the same for every
\* failure of the same type (and protocol tag); every other variant comes from
\* explicit construction.
C10_DiscriminantByTypeOnly ==
    /\ (src # None) =>
          /\ out.tag \in {"Io", "Tls", "SyncChannelClosed", "AsyncChannelClosed",
                          "OneShotCanceled", "InvalidMessage"}
          /\ \A e \in Sources : C10_Kind(e) = C10_Kind(src) => Into(e).tag = out.tag
    /\ (out # None /\ out.tag \in {"InvalidConfig", "PoisonedLog", "PingTimeout",
                                    "UnknownCodec", "CodecFailed", "NoUsableNick",
                                    "StreamAlreadyConfigured"}) => src = None

C10_Witness ==
    /\ src.type = "SendError"
    /\ src.kind = "Full"
    /\ out.tag = "AsyncChannelClosed"

------------------------------------------------------------------------------
(* Properties of configuration loading *)

\* The markers that name a format, compiled in or not.
C7_KnownMarkers == {S_toml, S_json, S_yaml, S_yml}

\* C7: a path without extension fails with MissingExtension, a path whose
\* extension names no format fails with UnknownConfigFormat carrying that
\* extension; the two never stand for each other, no parser has run, and the
\* failure is InvalidConfig with the path as given.
C7_FormatIdentification ==
    (path # None) =>
        LET p == path.val
            ext == Extension(p)
        IN /\ ext = None =>
                /\ loadOut = [type |-> "Error", tag |-> "InvalidConfig", path |-> p,
                              cause |-> [type |-> "ConfigError", tag |-> "MissingExtension"]]
                /\ parsed = {}
           /\ (ext # None /\ ext.val \notin C7_KnownMarkers) =>
                /\ loadOut = [type |-> "Error", tag |-> "InvalidConfig", path |-> p,
                              cause |-> [type |-> "ConfigError", tag |-> "UnknownConfigFormat",
                                         format |-> ext.val]]
                /\ parsed = {}
           /\ (loadOut.type = "Error" /\ loadOut.cause.tag = "MissingExtension") =>
                \/ FileName(p) = <<".", ".">>
                \/ \A i \in 2..Len(FileName(p)) : FileName(p)[i] # "."
           /\ (loadOut.type = "Error" /\ loadOut.cause.tag = "UnknownConfigFormat") =>
                /\ ext # None
                /\ ext.val \notin C7_KnownMarkers
           /\ p = S_bot_ini =>
                loadOut = [type |-> "Error", tag |-> "InvalidConfig", path |-> S_bot_ini,
                           cause |-> [type |-> "ConfigError", tag |-> "UnknownConfigFormat",
                                      format |-> S_ini]]
           /\ p = S_bot =>
                loadOut = [type |-> "Error", tag |-> "InvalidConfig", path |-> S_bot,
                           cause |-> [type |-> "ConfigError", tag |-> "MissingExtension"]]

C7_Witness ==
    /\ path = Some(S_bot_ini)
    /\ loadOut.type = "Error"
    /\ loadOut.cause.tag = "UnknownConfigFormat"
    /\ loadOut.cause.format = S_ini
    /\ parsed = {}

\* The parse-failure variant of each format.
C8_ParseVariant ==
    [f \in Formats |->
        CASE f = "toml" -> "InvalidToml"
          [] f = "json" -> "InvalidJson"
          [] f = "yaml" -> "InvalidYaml"]

\* C8: loading a document of a format excluded from the build fails with
\* ConfigFormatDisabled naming the format, without parsing; the failure is a
\* variant that exists in the build, so never the parse failure of an excluded
\* format; and ConfigFormatDisabled is returned only for a recognized, excluded format.
C8_FormatDisabled ==
    (path # None) =>
        LET p == path.val
            ext == Extension(p)
            f == IF ext = None THEN "" ELSE FormatOf(ext.val)
        IN /\ (f \in Formats /\ f \notin features) =>
                /\ loadOut = [type |-> "Error", tag |-> "InvalidConfig", path |-> p,
                              cause |-> [type |-> "ConfigError", tag |-> "ConfigFormatDisabled",
                                         format |-> FormatName(f)]]
                /\ parsed = {}
           /\ loadOut.type = "Error" =>
                /\ HasVariant(features, loadOut.cause.tag)
                /\ \A g \in Formats \ features : loadOut.cause.tag # C8_ParseVariant[g]
           /\ parsed \subseteq features
           /\ (loadOut.type = "Error" /\ loadOut.cause.tag = "ConfigFormatDisabled") =>
                /\ f \in Formats
                /\ f \notin features

C8_Witness ==
    /\ path = Some(S_bot_toml)
    /\ "toml" \notin features
    /\ "json" \in features
    /\ loadOut.type = "Error"
    /\ loadOut.cause.tag = "ConfigFormatDisabled"
    /\ loadOut.cause.format = S_TOML
    /\ parsed = {}

====
